---- MODULE Spec2Model ----
(***************************************************************************)
(* Model of adafruit_azureiot.IOT_HUB: a client that formats a URL, calls  *)
(* one verb of an injected WiFi manager, checks the status code against a  *)
(* fixed list and returns response.json().                                 *)
(*                                                                         *)
(* Python values are modelled as records so that values of different       *)
(* Python types can be compared: None is [type |-> "NoneType"], a decoded  *)
(* JSON value is [type |-> "dict"/"list", ...], an exception is            *)
(* [type |-> "TypeError", args |-> <<message>>].  The result of evaluating *)
(* a Python call is [kind |-> "return"/"raise", value |-> ...].            *)
(***************************************************************************)
EXTENDS Integers, Sequences, FiniteSets, TLC

VARIABLES
    client,           \* the IOT_HUB instance (its attributes), or NoClient
    ctor,             \* arguments, outcome and object of the constructor call
    ncalls,           \* number of domain operations called so far
    transport_calls,  \* number of WiFi manager verb invocations so far
    cur,              \* record of the most recent domain operation call
    prev              \* operation, arguments and outcome of the call before

vars == <<client, ctor, ncalls, transport_calls, cur, prev>>

----------------------------------------------------------------------------
(* Bounds and input domains *)

MaxCalls == 2

IotHubNames == {"myhub", "hub2"}
SasTokens   == {"SharedAccessSignature sr=...", "SharedAccessSignature sr=other"}
DeviceIds   == {"sensor1", "sensor2"}
Payloads    == {[type |-> "dict", items |-> <<<<"temperature", "21">>>>]}

\* Responses of the transport.  A status code of the hub's error list comes
\* with its reason phrase (429 with either of two) and a JSON error body;
\* 200 comes with a JSON object, a JSON array or an empty body, 204 with an
\* empty body, 503 with a JSON object or an empty body.
ErrorStatusCodes == {400, 401, 403, 404, 412, 429, 500}
OtherStatusCodes == {200, 204, 503}
StatusCodes      == ErrorStatusCodes \cup OtherStatusCodes

Reasons(c) ==
    CASE c = 400 -> {"Bad Request"}
      [] c = 401 -> {"Unauthorized"}
      [] c = 403 -> {"Forbidden"}
      [] c = 404 -> {"Not Found"}
      [] c = 412 -> {"Precondition Failed"}
      [] c = 429 -> {"Too Many Requests", "Throttled"}
      [] c = 500 -> {"Internal Server Error"}
      [] c = 200 -> {"OK"}
      [] c = 204 -> {"No Content"}
      [] c = 503 -> {"Service Unavailable"}

Bodies(c) ==
    CASE c \in ErrorStatusCodes -> {"{\"deviceId\": \"sensor1\"}"}
      [] c = 200 -> {"{\"deviceId\": \"sensor1\"}", "[]", ""}
      [] c = 204 -> {""}
      [] c = 503 -> {"{\"deviceId\": \"sensor1\"}", ""}

Responses ==
    UNION { [status_code : {c}, reason : Reasons(c), body : Bodies(c)] :
            c \in StatusCodes }

Verbs == {"get", "post", "put", "patch", "delete"}

\* Objects that can be handed to the constructor: the ESP32SPI WiFi manager,
\* a session object of another class that offers the same five verbs, and a
\* plain socket-like object that offers only some of them.
WifiManagers ==
    { [type_str |-> "<class 'adafruit_esp32spi.adafruit_esp32spi_wifimanager.ESPSPI_WiFiManager'>",
       methods  |-> Verbs],
      [type_str |-> "<class 'adafruit_requests.Session'>",
       methods  |-> Verbs],
      [type_str |-> "<class 'socket'>",
       methods  |-> {"get", "post"}] }

----------------------------------------------------------------------------
(* Python values *)

None == [type |-> "NoneType"]
Return(v) == [kind |-> "return", value |-> v]
Raise(e)  == [kind |-> "raise", value |-> e]

NoClient       == [type |-> "unbound"]
NotConstructed == [kind |-> "pending"]
NoCall         == [op |-> "none"]

\* needle in haystack, for Python strings
StrIn(needle, haystack) ==
    \E i \in 1..(Len(haystack) - Len(needle) + 1) :
        SubSeq(haystack, i, i + Len(needle) - 1) = needle

----------------------------------------------------------------------------
(* Module constants *)

AZURE_API_VER == "2018-06-30"
\* Variant: 429 left out of the list.
AZURE_HTTP_ERROR_CODES_Without429 == <<400, 401, 404, 403, 412, 500>>

AZURE_HTTP_ERROR_CODES == <<400, 401, 404, 403, 412, 429, 500>>

----------------------------------------------------------------------------
(* The transport's response object *)

\* response.json(): decodes the body, raises ValueError when it is not JSON.
json(response) ==
    CASE response.body = "{\"deviceId\": \"sensor1\"}" ->
             Return([type |-> "dict", items |-> <<<<"deviceId", "sensor1">>>>])
      [] response.body = "[]" ->
             Return([type |-> "list", items |-> <<>>])
      [] OTHER ->
             Raise([type |-> "ValueError", args |-> <<"syntax error in JSON">>])

----------------------------------------------------------------------------
(* IOT_HUB *)

\* Variant: the constructor checks the verbs the object offers instead of
\* the text of its type.
__init__DuckTyped(wifi_manager, iot_hub_name, sas_token) ==
    IF wifi_manager.methods = Verbs
    THEN [outcome |-> Return(None),
          self    |-> [_wifi         |-> wifi_manager,
                       _iot_hub_url  |-> "https://" \o iot_hub_name \o ".azure-devices.net",
                       _sas_token    |-> sas_token,
                       _azure_header |-> [Authorization |-> sas_token]],
          transport_calls |-> 0]
    ELSE [outcome |-> Raise([type |-> "TypeError",
                             args |-> <<"This library requires a WiFiManager object.">>]),
          self    |-> NoClient,
          transport_calls |-> 0]

\* __init__: the result holds the outcome and the constructed object.
__init__(wifi_manager, iot_hub_name, sas_token) ==
    LET _wifi_type == wifi_manager.type_str
    IN  IF StrIn("ESPSPI_WiFiManager", _wifi_type)
        THEN [outcome |-> Return(None),
              self    |-> [_wifi         |-> wifi_manager,
                           _iot_hub_url  |-> "https://" \o iot_hub_name \o ".azure-devices.net",
                           _sas_token    |-> sas_token,
                           _azure_header |-> [Authorization |-> sas_token]],
              transport_calls |-> 0]
        ELSE [outcome |-> Raise([type |-> "TypeError",
                                 args |-> <<"This library requires a WiFiManager object.">>]),
              self    |-> NoClient,
              transport_calls |-> 0]

\* The for loop of _parse_http_status, from index i of the list on.
RECURSIVE ParseFrom(_, _, _)
ParseFrom(i, status_code, status_reason) ==
    IF i > Len(AZURE_HTTP_ERROR_CODES)
    THEN Return(None)
    ELSE IF AZURE_HTTP_ERROR_CODES[i] = status_code
         THEN Raise([type |-> "TypeError",
                     args |-> <<"Error " \o ToString(status_code) \o ": " \o status_reason>>])
         ELSE ParseFrom(i + 1, status_code, status_reason)

\* Variant: every status code from 400 on is an error.
_parse_http_status_From400(status_code, status_reason) ==
    IF status_code >= 400
    THEN Raise([type |-> "TypeError",
                args |-> <<"Error " \o ToString(status_code) \o ": " \o status_reason>>])
    ELSE Return(None)

_parse_http_status(status_code, status_reason) ==
    ParseFrom(1, status_code, status_reason)

\* What a transport verb is called with; json is None for get and delete.
Request(method, path, payload, headers) ==
    [method |-> method, url |-> path, json |-> payload, headers |-> headers]

\* Variant: the request is issued a second time after an error status.
Finish_Retry(self, request, response) ==
    LET status == _parse_http_status(response.status_code, response.reason)
    IN  IF status.kind = "raise"
        THEN [self |-> self, requests |-> <<request, request>>, json_calls |-> 0,
              helper_outcome |-> status, outcome |-> status]
        ELSE [self |-> self, requests |-> <<request>>, json_calls |-> 1,
              helper_outcome |-> json(response), outcome |-> json(response)]

\* Variant: a 401 answer makes the client forget its token.
Finish_DropsToken(self, request, response) ==
    LET status == _parse_http_status(response.status_code, response.reason)
        after  == IF response.status_code = 401
                  THEN [self EXCEPT !._sas_token = "",
                                    !._azure_header = [Authorization |-> ""]]
                  ELSE self
    IN  IF status.kind = "raise"
        THEN [self |-> after, requests |-> <<request>>, json_calls |-> 0,
              helper_outcome |-> status, outcome |-> status]
        ELSE [self |-> after, requests |-> <<request>>, json_calls |-> 1,
              helper_outcome |-> json(response), outcome |-> json(response)]

\* The two lines every verb helper ends with, given the request it made
\* and the response the transport produced for it.  helper_outcome is what
\* the verb helper itself returned or raised; outcome starts out equal to it
\* and is what the calling method turns it into.
Finish(self, request, response) ==
    LET status == _parse_http_status(response.status_code, response.reason)
    IN  IF status.kind = "raise"
        THEN [self |-> self, requests |-> <<request>>, json_calls |-> 0,
              helper_outcome |-> status, outcome |-> status]
        ELSE [self |-> self, requests |-> <<request>>, json_calls |-> 1,
              helper_outcome |-> json(response), outcome |-> json(response)]

\* HTTP Request Methods.  The last parameter is the transport's response.
_post(self, path, payload, response) ==
    Finish(self, Request("post", path, payload, self._azure_header), response)

_get(self, path, response) ==
    Finish(self, Request("get", path, None, self._azure_header), response)

\* Variant: _delete does not decode the body of a response it accepts.
_delete_NoParse(self, path, response) ==
    LET request == [method |-> "delete", url |-> path, json |-> None,
                    headers |-> self._azure_header]
        status  == _parse_http_status(response.status_code, response.reason)
    IN  IF status.kind = "raise"
        THEN [self |-> self, requests |-> <<request>>, json_calls |-> 0,
              helper_outcome |-> status, outcome |-> status]
        ELSE [self |-> self, requests |-> <<request>>, json_calls |-> 0,
              helper_outcome |-> Return(None), outcome |-> Return(None)]

_delete(self, path, response) ==
    Finish(self, Request("delete", path, None, self._azure_header), response)

_patch(self, path, payload, response) ==
    Finish(self, Request("patch", path, payload, self._azure_header), response)

_put(self, path, payload, response) ==
    Finish(self, Request("put", path, payload, self._azure_header), response)

\* A method whose body ends without a return statement returns None.
Discard(r) ==
    IF r.outcome.kind = "return" THEN [r EXCEPT !.outcome = Return(None)] ELSE r

\* Variant: send_device_message hands back what _post returned.
send_device_message_Returns(self, device_id, message, response) ==
    LET path == self._iot_hub_url \o "/devices/" \o device_id
                \o "/messages/events?api-version=" \o AZURE_API_VER
    IN  _post(self, path, message, response)

\* Device Messaging
send_device_message(self, device_id, message, response) ==
    LET path == self._iot_hub_url \o "/devices/" \o device_id
                \o "/messages/events?api-version=" \o AZURE_API_VER
    IN  Discard(_post(self, path, message, response))

\* Variant: get_device_twin answers from the twin the call before returned
\* for the same device, without asking the transport again.
get_device_twin_Cached(self, device_id, response) ==
    LET path == self._iot_hub_url \o "/twins/" \o device_id
                \o "?api-version=" \o AZURE_API_VER
    IN  IF /\ cur.op = "get_device_twin"
           /\ cur.args = <<device_id>>
           /\ cur.outcome.kind = "return"
        THEN [self |-> self, requests |-> <<>>, json_calls |-> 0,
              helper_outcome |-> cur.outcome, outcome |-> cur.outcome]
        ELSE _get(self, path, response)

\* Device Twin
get_device_twin(self, device_id, response) ==
    LET path == self._iot_hub_url \o "/twins/" \o device_id
                \o "?api-version=" \o AZURE_API_VER
    IN  _get(self, path, response)

update_device_twin(self, device_id, properties, response) ==
    LET path == self._iot_hub_url \o "/twins/" \o device_id
                \o "?api-version=" \o AZURE_API_VER
    IN  _patch(self, path, properties, response)

replace_device_twin(self, device_id, properties, response) ==
    LET path == self._iot_hub_url \o "/twins/" \o device_id
                \o "?api-version-" \o AZURE_API_VER
    IN  _put(self, path, properties, response)

\* IoT Hub Service
get_devices(self, response) ==
    LET path == self._iot_hub_url \o "/devices/?api-version=" \o AZURE_API_VER
    IN  _get(self, path, response)

\* Variant: get_device with the separator slip of replace_device_twin.
get_device_Hyphen(self, device_id, response) ==
    LET path == self._iot_hub_url \o "/devices/" \o device_id
                \o "?api-version-" \o AZURE_API_VER
    IN  _get(self, path, response)

get_device(self, device_id, response) ==
    LET path == self._iot_hub_url \o "/devices/" \o device_id
                \o "?api-version=" \o AZURE_API_VER
    IN  _get(self, path, response)

delete_device(self, device_id, response) ==
    LET path == self._iot_hub_url \o "/devices/" \o device_id
                \o "?api-version=" \o AZURE_API_VER
    IN  Discard(_delete(self, path, response))

----------------------------------------------------------------------------
(* State machine: one construction, then a sequence of sequential calls *)

Init ==
    /\ client = NoClient
    /\ ctor = NotConstructed
    /\ ncalls = 0
    /\ transport_calls = 0
    /\ cur = NoCall
    /\ prev = NoCall

Construct ==
    /\ ctor = NotConstructed
    /\ \E wifi_manager \in WifiManagers, iot_hub_name \in IotHubNames,
          sas_token \in SasTokens :
          LET r == __init__(wifi_manager, iot_hub_name, sas_token)
          IN  /\ ctor' = [kind         |-> r.outcome.kind,
                          value        |-> r.outcome.value,
                          self         |-> r.self,
                          wifi_manager |-> wifi_manager,
                          iot_hub_name |-> iot_hub_name,
                          sas_token    |-> sas_token]
              /\ client' = r.self
              /\ transport_calls' = transport_calls + r.transport_calls
    /\ UNCHANGED <<ncalls, cur, prev>>

\* The caller invokes operation op with arguments args, the transport
\* answers with response, and r is what the method did.
Called(op, args, response, r) ==
    /\ client' = r.self
    /\ ncalls' = ncalls + 1
    /\ transport_calls' = transport_calls + Len(r.requests)
    /\ cur' = [op |-> op, args |-> args, response |-> response,
               requests |-> r.requests, json_calls |-> r.json_calls,
               helper_outcome |-> r.helper_outcome, outcome |-> r.outcome]
    /\ prev' = IF cur = NoCall THEN NoCall
               ELSE [op |-> cur.op, args |-> cur.args, outcome |-> cur.outcome]
    /\ UNCHANGED ctor

CanCall == client # NoClient /\ ncalls < MaxCalls

SendDeviceMessage ==
    /\ CanCall
    /\ \E device_id \in DeviceIds, message \in Payloads, response \in Responses :
          Called("send_device_message", <<device_id, message>>, response,
                 send_device_message(client, device_id, message, response))

GetDeviceTwin ==
    /\ CanCall
    /\ \E device_id \in DeviceIds, response \in Responses :
          Called("get_device_twin", <<device_id>>, response,
                 get_device_twin(client, device_id, response))

UpdateDeviceTwin ==
    /\ CanCall
    /\ \E device_id \in DeviceIds, properties \in Payloads, response \in Responses :
          Called("update_device_twin", <<device_id, properties>>, response,
                 update_device_twin(client, device_id, properties, response))

ReplaceDeviceTwin ==
    /\ CanCall
    /\ \E device_id \in DeviceIds, properties \in Payloads, response \in Responses :
          Called("replace_device_twin", <<device_id, properties>>, response,
                 replace_device_twin(client, device_id, properties, response))

GetDevices ==
    /\ CanCall
    /\ \E response \in Responses :
          Called("get_devices", <<>>, response, get_devices(client, response))

GetDevice ==
    /\ CanCall
    /\ \E device_id \in DeviceIds, response \in Responses :
          Called("get_device", <<device_id>>, response,
                 get_device(client, device_id, response))

DeleteDevice ==
    /\ CanCall
    /\ \E device_id \in DeviceIds, response \in Responses :
          Called("delete_device", <<device_id>>, response,
                 delete_device(client, device_id, response))

Next ==
    \/ Construct
    \/ SendDeviceMessage
    \/ GetDeviceTwin
    \/ UpdateDeviceTwin
    \/ ReplaceDeviceTwin
    \/ GetDevices
    \/ GetDevice
    \/ DeleteDevice

Spec == Init /\ [][Next]_vars

----------------------------------------------------------------------------
(* Vocabulary of the properties *)

\* The status codes the documentation lists as failures.
ErrorSet == {400, 401, 403, 404, 412, 429, 500}

HasCalled == cur.op # "none"

StatusError(c, reason) ==
    Raise([type |-> "TypeError",
           args |-> <<"Error " \o ToString(c) \o ": " \o reason>>])

DecodeError == Raise([type |-> "ValueError", args |-> <<"syntax error in JSON">>])

IsJson(response) == json(response).kind = "return"

Base == "https://" \o ctor.iot_hub_name \o ".azure-devices.net"

\* Verb and URL of the operations table for operation op with arguments args.
TableVerb(op) ==
    CASE op = "send_device_message" -> "post"
      [] op = "get_device_twin"     -> "get"
      [] op = "update_device_twin"  -> "patch"
      [] op = "replace_device_twin" -> "put"
      [] op = "get_devices"         -> "get"
      [] op = "get_device"          -> "get"
      [] op = "delete_device"       -> "delete"

TableUrl(op, args) ==
    CASE op = "send_device_message" ->
             Base \o "/devices/" \o args[1] \o "/messages/events?api-version=2018-06-30"
      [] op \in {"get_device_twin", "update_device_twin", "replace_device_twin"} ->
             Base \o "/twins/" \o args[1] \o "?api-version=2018-06-30"
      [] op = "get_devices" ->
             Base \o "/devices/?api-version=2018-06-30"
      [] op \in {"get_device", "delete_device"} ->
             Base \o "/devices/" \o args[1] \o "?api-version=2018-06-30"

----------------------------------------------------------------------------
(* C1 *)

\* C1: whenever the response of a call has a status code of the error set,
\* the verb helper raises the error that carries that code and the
\* response's reason, and response.json() has not been invoked.
C1_ErrorStatusRaises ==
    (HasCalled /\ cur.response.status_code \in ErrorSet) =>
        /\ cur.helper_outcome =
               StatusError(cur.response.status_code, cur.response.reason)
        /\ cur.json_calls = 0

\* Reached: every verb helper has its turn; here _delete answered with 429.
C1_Witness ==
    /\ HasCalled
    /\ cur.requests[1].method = "delete"
    /\ cur.response.status_code = 429
    /\ cur.response.reason = "Throttled"
    /\ IsJson(cur.response)
    /\ cur.helper_outcome.kind = "raise"

----------------------------------------------------------------------------
(* C2 *)

\* C2 as stated: whenever the response of a call has a status code outside
\* the error set, the verb helper returns the decoded body without raising.
C2_AnyOtherStatusReturns ==
    (HasCalled /\ cur.response.status_code \notin ErrorSet) =>
        /\ cur.helper_outcome.kind = "return"
        /\ cur.helper_outcome = json(cur.response)

\* C2 amended: whenever the response of a call has a status code outside
\* the error set and its body is valid JSON, the verb helper returns the
\* decoded body without raising.
C2_OtherStatusReturnsJson ==
    (HasCalled /\ cur.response.status_code \notin ErrorSet /\ IsJson(cur.response)) =>
        /\ cur.helper_outcome.kind = "return"
        /\ cur.helper_outcome = json(cur.response)
        /\ cur.json_calls = 1

C2_Witness ==
    /\ HasCalled
    /\ cur.requests[1].method = "patch"
    /\ cur.response.status_code = 503
    /\ cur.response.body = "{\"deviceId\": \"sensor1\"}"
    /\ cur.helper_outcome = Return([type |-> "dict", items |-> <<<<"deviceId", "sensor1">>>>])

----------------------------------------------------------------------------
(* C3 *)

Constructed == ctor.kind # "pending"

----------------------------------------------------------------------------
(* C4 *)

\* C4: the request of every domain operation uses the verb and the URL of
\* the operations table, with the query parameter api-version=2018-06-30.
C4_TableRequests ==
    HasCalled =>
        /\ cur.requests[1].method = TableVerb(cur.op)
        /\ cur.requests[1].url = TableUrl(cur.op, cur.args)

----------------------------------------------------------------------------
(* C5 *)

GetDeviceRequest ==
    [method  |-> "get",
     url     |-> "https://" \o ctor.iot_hub_name \o ".azure-devices.net/devices/"
                 \o cur.args[1] \o "?api-version=2018-06-30",
     json    |-> None,
     headers |-> [Authorization |-> ctor.sas_token]]

\* C5 as stated: get_device(d) issues the GET above and returns the decoded
\* body whenever the status is outside the error set.
C5_GetDeviceAlwaysReturns ==
    (HasCalled /\ cur.op = "get_device") =>
        /\ cur.requests = <<GetDeviceRequest>>
        /\ cur.response.status_code \notin ErrorSet =>
               /\ cur.outcome.kind = "return"
               /\ cur.outcome = json(cur.response)

\* C5 amended: get_device(d) issues the GET above and returns the decoded
\* body whenever the status is outside the error set and the body is valid
\* JSON.
C5_GetDevice ==
    (HasCalled /\ cur.op = "get_device") =>
        /\ cur.requests = <<GetDeviceRequest>>
        /\ (cur.response.status_code \notin ErrorSet /\ IsJson(cur.response)) =>
               /\ cur.outcome.kind = "return"
               /\ cur.outcome = json(cur.response)

C5_Witness ==
    /\ HasCalled
    /\ cur.op = "get_device"
    /\ ctor.iot_hub_name = "myhub"
    /\ ctor.sas_token = "SharedAccessSignature sr=..."
    /\ cur.args = <<"sensor1">>
    /\ cur.requests[1].url =
           "https://myhub.azure-devices.net/devices/sensor1?api-version=2018-06-30"
    /\ cur.outcome = Return([type |-> "dict", items |-> <<<<"deviceId", "sensor1">>>>])

----------------------------------------------------------------------------
(* C6 *)

\* C6 as stated: send_device_message issues exactly one POST and, for a
\* status outside the error set, returns None whatever the body is.
C6_SendIgnoresBody ==
    (HasCalled /\ cur.op = "send_device_message") =>
        /\ Len(cur.requests) = 1
        /\ cur.requests[1].method = "post"
        /\ cur.response.status_code \notin ErrorSet => cur.outcome = Return(None)

\* C6 amended: send_device_message issues exactly one POST and, for a status
\* outside the error set and a body that is valid JSON, returns None
\* whatever the decoded value is.
C6_SendDiscardsDecodedBody ==
    (HasCalled /\ cur.op = "send_device_message") =>
        /\ Len(cur.requests) = 1
        /\ cur.requests[1].method = "post"
        /\ (cur.response.status_code \notin ErrorSet /\ IsJson(cur.response)) =>
               cur.outcome = Return(None)

C6_Witness ==
    /\ HasCalled
    /\ cur.op = "send_device_message"
    /\ cur.response.status_code = 200
    /\ cur.response.body = "{\"deviceId\": \"sensor1\"}"
    /\ cur.json_calls = 1
    /\ cur.outcome = Return(None)

----------------------------------------------------------------------------
(* C7 *)

\* C7: when get_device_twin(d) is called twice in a row, each call has
\* issued its own GET to the transport, and a call that returns, returns
\* the decoded body of its own response, whatever the call before returned.
C7_NoCaching ==
    (HasCalled /\ cur.op = "get_device_twin" /\ prev.op = "get_device_twin"
               /\ prev.args = cur.args) =>
        /\ transport_calls = ncalls
        /\ Len(cur.requests) = 1
        /\ cur.requests[1].method = "get"
        /\ cur.requests[1].url = TableUrl("get_device_twin", cur.args)
        /\ (cur.response.status_code \notin ErrorSet /\ IsJson(cur.response)) =>
               cur.outcome = json(cur.response)

\* Reached: the second response differs from the first and is what the
\* second call returned.
C7_Witness ==
    /\ HasCalled
    /\ cur.op = "get_device_twin"
    /\ prev.op = "get_device_twin"
    /\ prev.args = cur.args
    /\ prev.outcome = Return([type |-> "dict", items |-> <<<<"deviceId", "sensor1">>>>])
    /\ cur.outcome = Return([type |-> "list", items |-> <<>>])
    /\ transport_calls = 2

----------------------------------------------------------------------------
(* C8 *)

\* C8: every call of a domain operation, whatever its outcome, has invoked
\* the transport exactly once, with the header Authorization equal to the
\* token given at construction.
C8_OneAttempt ==
    HasCalled =>
        /\ Len(cur.requests) = 1
        /\ cur.requests[1].headers = [Authorization |-> ctor.sas_token]
        /\ transport_calls = ncalls

\* Reached: a call failed with an error status and the next one while
\* decoding; two calls, two requests.
C8_Witness ==
    /\ HasCalled
    /\ prev.op # "none"
    /\ prev.outcome.value.type = "TypeError"
    /\ cur.outcome.value.type = "ValueError"
    /\ ncalls = 2
    /\ transport_calls = 2

----------------------------------------------------------------------------
(* C9 *)

\* What the outcome of a call is, from the operation and the response alone.
OutcomeOf(op, response) ==
    IF response.status_code \in ErrorSet
    THEN StatusError(response.status_code, response.reason)
    ELSE IF ~IsJson(response)
         THEN DecodeError
         ELSE IF op \in {"send_device_message", "delete_device"}
              THEN Return(None)
              ELSE json(response)

\* C9: after any sequence of domain operations, also ones that raised, the
\* client's base URL, token and header are the ones the constructor left,
\* and the outcome of the latest call is determined by the operation and
\* the transport's response to it.
C9_ConfigurationUnchanged ==
    HasCalled =>
        /\ client = ctor.self
        /\ client._iot_hub_url = Base
        /\ client._sas_token = ctor.sas_token
        /\ client._azure_header = [Authorization |-> ctor.sas_token]
        /\ cur.outcome = OutcomeOf(cur.op, cur.response)

\* Reached: two calls that both raised, and the configuration is the one
\* the constructor built.
C9_Witness ==
    /\ ncalls = 2
    /\ prev.op # "none"
    /\ prev.outcome.value.type = "ValueError"
    /\ cur.outcome.value.type = "TypeError"
    /\ client._iot_hub_url = "https://hub2.azure-devices.net"
    /\ client._azure_header = [Authorization |-> ctor.sas_token]

----------------------------------------------------------------------------
(* C10 *)

\* C10: for every domain operation, when the status is outside the error
\* set and the body is not valid JSON, response.json() has been invoked and
\* the call raises the decode error, not a status error.
C10_DecodeErrorPropagates ==
    (HasCalled /\ cur.response.status_code \notin ErrorSet /\ ~IsJson(cur.response)) =>
        /\ cur.json_calls = 1
        /\ cur.outcome = DecodeError

\* Reached: delete_device answered with 204 and an empty body.
C10_Witness ==
    /\ HasCalled
    /\ cur.op = "delete_device"
    /\ cur.response.status_code = 204
    /\ cur.response.body = ""
    /\ cur.outcome.kind = "raise"
    /\ cur.outcome.value.type = "ValueError"

====
